---- MODULE Spec2Model ----
(***************************************************************************)
(* Execution ledger, FIFO matching and lifecycle replay of crypto-journal. *)
(*                                                                         *)
(* Tables are sequences: a row's id is its position (autoincrement).       *)
(* Quantities are exact decimals, modelled as integers (units of 1e-8).    *)
(***************************************************************************)
EXTENDS Integers, Sequences, FiniteSets, TLC

\* ------------------------------------------------------------------ bounds
MaxExecs == 3
MaxQty == 2
MaxTime == 2
MaxClock == 3
MaxTrades == 2
MaxPrice == 2
MaxClosable == 1
MaxPositionRows == 3
Procs == {1, 2}

\* ------------------------------------------------------------------ domains
Tickers == <<"BTC">>
Directions == <<"LONG", "SHORT">>
Sides == {"OPEN", "CLOSE"}
NoHash == "none"
NoExecId == "none"
NoDate == 0 - 1
NoPrice == 0 - 1
NoPnl == <<>>
NoFee == 0 - 1
TradeDirections == {"long", "short", "LONG"}

Range(s) == {s[i] : i \in DOMAIN s}
Rank(s, x) == CHOOSE i \in DOMAIN s : s[i] = x
Min(a, b) == IF a <= b THEN a ELSE b

\* execution_payload of insert_execution_and_match; occurred_at is `timestamp`.
PayloadsOver(files, hashes, execIds, dirs, qtys, times) ==
  [source : {"blofin"}, source_filename : files, source_rowhash : hashes,
   source_execution_id : execIds, ticker : Range(Tickers), direction : dirs,
   side : Sides, quantity : qtys, timestamp : times]

\* executions, matches, trades, events: the committed tables; tx: the open
\* transaction of each session; clock: now(); last: the last completed call
VARIABLES executions, matches, trades, events, clock, last, tx
vars == <<executions, matches, trades, events, clock, last, tx>>

\* ------------------------------------------------------------------ rows
NewExecution(p) ==
  [source |-> p.source, source_filename |-> p.source_filename,
   source_rowhash |-> p.source_rowhash, source_execution_id |-> p.source_execution_id,
   ticker |-> p.ticker, direction |-> p.direction, side |-> p.side,
   quantity |-> p.quantity, remaining_qty |-> p.quantity, timestamp |-> p.timestamp]

ExecutionMatch(o, c, q, now) ==
  [open_execution_id |-> o, close_execution_id |-> c, matched_quantity |-> q,
   created_at |-> now]

RECURSIVE SumQty(_, _)
SumQty(ms, I) ==
  IF I = {} THEN 0
  ELSE LET i == CHOOSE j \in I : TRUE IN ms[i].matched_quantity + SumQty(ms, I \ {i})

\* ORDER BY timestamp ASC, id ASC
Earlier(ex, a, b) ==
  \/ ex[a].timestamp < ex[b].timestamp
  \/ ex[a].timestamp = ex[b].timestamp /\ a < b

RECURSIVE FifoOrder(_, _)
FifoOrder(ex, S) ==
  IF S = {} THEN <<>>
  ELSE LET m == CHOOSE a \in S : \A b \in S \ {a} : Earlier(ex, a, b)
       IN <<m>> \o FifoOrder(ex, S \ {m})

\* ------------------------------------------------ execution_matching.py
AlreadyMatched(ms, c) ==
  SumQty(ms, {i \in DOMAIN ms : ms[i].close_execution_id = c})

\* the OPENs of the ticker, of either direction
OpenCandidates_AnyDirection(ex, c) ==
  {o \in DOMAIN ex : /\ ex[o].ticker = ex[c].ticker
                     /\ ex[o].side = "OPEN"
                     /\ ex[o].remaining_qty > 0}

OpenCandidates(ex, c) ==
  {o \in DOMAIN ex : /\ ex[o].ticker = ex[c].ticker
                     /\ ex[o].side = "OPEN"
                     /\ ex[o].direction = ex[c].direction
                     /\ ex[o].remaining_qty > 0}

\* the "PURE PYTHON FIFO" loop: the list of (open, match_qty)
RECURSIVE FifoPlan(_, _, _)
FifoPlan(opens, ex, remaining) ==
  IF opens = <<>> \/ remaining <= 0 THEN <<>>
  ELSE LET o == Head(opens)
           open_remaining == ex[o].remaining_qty
       IN IF open_remaining <= 0 THEN FifoPlan(Tail(opens), ex, remaining)
          ELSE LET match_qty == Min(open_remaining, remaining)
               IN <<[open |-> o, qty |-> match_qty]>>
                    \o FifoPlan(Tail(opens), ex, remaining - match_qty)

RECURSIVE PlanTotal(_)
PlanTotal(plan) == IF plan = <<>> THEN 0 ELSE Head(plan).qty + PlanTotal(Tail(plan))

\* the "APPLY MUTATIONS" loop
RECURSIVE ApplyPlan(_, _, _, _, _)
ApplyPlan(plan, ex, ms, c, now) ==
  IF plan = <<>> THEN [ex |-> ex, ms |-> ms]
  ELSE LET p == Head(plan)
       IN ApplyPlan(Tail(plan),
                    [ex EXCEPT ![p.open].remaining_qty = @ - p.qty],
                    Append(ms, ExecutionMatch(p.open, c, p.qty, now)), c, now)

\* the stored remaining_qty of the CLOSE taken as it is
ReconcileClose_Trusting(ex, ms, c) == ex

ReconcileClose(ex, ms, c) ==
  LET expected_remaining == ex[c].quantity - AlreadyMatched(ms, c)
  IN IF ex[c].remaining_qty # expected_remaining
     THEN [ex EXCEPT ![c].remaining_qty = expected_remaining]
     ELSE ex

match_close_execution(ex, ms, c, now) ==
  LET ex1 == ReconcileClose(ex, ms, c)
  IN IF ex1[c].remaining_qty <= 0 THEN [ex |-> ex1, ms |-> ms]
     ELSE LET remaining == ex1[c].remaining_qty
              opens == FifoOrder(ex1, OpenCandidates(ex1, c))
              plan == FifoPlan(opens, ex1, remaining)
              r == ApplyPlan(plan, ex1, ms, c, now)
          IN [ex |-> [r.ex EXCEPT ![c].remaining_qty = remaining - PlanTotal(plan)],
              ms |-> r.ms]

\* ------------------------------------------------------------ matcher.py
\* WHERE ticker = :t AND side = 'OPEN' AND remaining_qty > 0 (no direction)
MatcherCandidates(ex, c) ==
  {o \in DOMAIN ex : /\ ex[o].ticker = ex[c].ticker
                     /\ ex[o].side = "OPEN"
                     /\ ex[o].remaining_qty > 0}

RECURSIVE _match_close_execution(_, _, _, _, _)
_match_close_execution(ex, ms, c, remaining_to_match, now) ==
  IF ~(remaining_to_match > 0) THEN [ex |-> ex, ms |-> ms]
  ELSE LET cands == FifoOrder(ex, MatcherCandidates(ex, c))
       IN IF cands = <<>> THEN [ex |-> ex, ms |-> ms]
          ELSE LET candidate == Head(cands)
                   match_qty == Min(ex[candidate].remaining_qty, remaining_to_match)
                   new_candidate_rem == ex[candidate].remaining_qty - match_qty
                   new_close_rem == remaining_to_match - match_qty
               IN _match_close_execution(
                    [ex EXCEPT ![candidate].remaining_qty = new_candidate_rem,
                               ![c].remaining_qty = new_close_rem],
                    Append(ms, ExecutionMatch(candidate, c, match_qty, now)),
                    c, new_close_rem, now)

\* the payload's rowhash looked up in the wrong column
ExistingByRowhash_WrongColumn(ex, p) ==
  {e \in DOMAIN ex : /\ ex[e].source = p.source
                     /\ ex[e].source_filename = p.source_filename
                     /\ ex[e].source_execution_id = p.source_rowhash}

ExistingByRowhash(ex, p) ==
  {e \in DOMAIN ex : /\ ex[e].source = p.source
                     /\ ex[e].source_filename = p.source_filename
                     /\ ex[e].source_rowhash = p.source_rowhash}

ExistingByExecId(ex, p) ==
  {e \in DOMAIN ex : /\ ex[e].source = p.source
                     /\ ex[e].source_execution_id = p.source_execution_id}

First(S) == CHOOSE e \in S : \A f \in S : e <= f

\* the idempotency checks: the id of the existing row, or 0
ExistingExecution(ex, p) ==
  IF p.source_rowhash # NoHash /\ ExistingByRowhash(ex, p) # {}
    THEN First(ExistingByRowhash(ex, p))
  ELSE IF /\ p.source_execution_id # NoExecId
          /\ p.source_rowhash = NoHash
          /\ ExistingByExecId(ex, p) # {}
    THEN First(ExistingByExecId(ex, p))
  ELSE 0

\* an ingestion that runs the matching loop for every new row, whatever its side
insert_execution_and_match_AnySide(ex, ms, p, now) ==
  IF ExistingExecution(ex, p) # 0
  THEN [ex |-> ex, ms |-> ms, id |-> ExistingExecution(ex, p), dup |-> TRUE]
  ELSE LET ex1 == Append(ex, NewExecution(p))
           id == Len(ex1)
           r == _match_close_execution(ex1, ms, id, ex1[id].remaining_qty, now)
       IN [ex |-> r.ex, ms |-> r.ms, id |-> id, dup |-> FALSE]

insert_execution_and_match(ex, ms, p, now) ==
  IF ExistingExecution(ex, p) # 0
  THEN [ex |-> ex, ms |-> ms, id |-> ExistingExecution(ex, p), dup |-> TRUE]
  ELSE LET ex1 == Append(ex, NewExecution(p))
           id == Len(ex1)
           r == IF p.side = "CLOSE"
                THEN _match_close_execution(ex1, ms, id, ex1[id].remaining_qty, now)
                ELSE [ex |-> ex1, ms |-> ms]
       IN [ex |-> r.ex, ms |-> r.ms, id |-> id, dup |-> FALSE]

\* the quantity and price of a payload as the caller gives them: strings
RawNumbers == {"abc", "-1", "0", "1"}

\* Decimal(s) does not raise InvalidOperation
IsDecimal(s) == s \in {"-1", "0", "1", "2"}

\* Decimal(s), for the strings it accepts
Decimal(s) ==
  CASE s = "-1" -> 0 - 1
    [] s = "0" -> 0
    [] s = "1" -> 1
    [] s = "2" -> 2

\* insert_execution_and_match on a payload whose quantity and price are
\* still strings: the idempotency checks, then Decimal(quantity), then the
\* insert, whose flush converts the price for its NUMERIC column (the price
\* is stored as given and takes no part in the matching). err: it raised.
insert_execution_and_match_raw(ex, ms, raw, now) ==
  IF ExistingExecution(ex, raw) # 0
  THEN [ex |-> ex, ms |-> ms, id |-> ExistingExecution(ex, raw), dup |-> TRUE,
        err |-> FALSE]
  ELSE IF ~IsDecimal(raw.quantity) \/ ~IsDecimal(raw.price)
  THEN [ex |-> ex, ms |-> ms, id |-> 0, dup |-> FALSE, err |-> TRUE]
  ELSE LET r == insert_execution_and_match(
                  ex, ms, [raw EXCEPT !.quantity = Decimal(raw.quantity)], now)
       IN [ex |-> r.ex, ms |-> r.ms, id |-> r.id, dup |-> r.dup, err |-> FALSE]

\* ------------------------------------------- execution_matcher_persist.py
\* ORDER BY ticker, direction, timestamp, id
RebuildBefore(ex, a, b) ==
  LET ta == Rank(Tickers, ex[a].ticker)
      tb == Rank(Tickers, ex[b].ticker)
      da == Rank(Directions, ex[a].direction)
      db == Rank(Directions, ex[b].direction)
  IN \/ ta < tb
     \/ ta = tb /\ da < db
     \/ ta = tb /\ da = db /\ Earlier(ex, a, b)

RECURSIVE RebuildOrder(_, _)
RebuildOrder(ex, S) ==
  IF S = {} THEN <<>>
  ELSE LET m == CHOOSE a \in S : \A b \in S \ {a} : RebuildBefore(ex, a, b)
       IN <<m>> \o RebuildOrder(ex, S \ {m})

\* the inner while loop of one CLOSE against the open_queue
RECURSIVE CloseAgainstQueue(_, _, _, _, _)
CloseAgainstQueue(open_queue, c, remaining_qty, acc, now) ==
  IF ~(remaining_qty > 0 /\ open_queue # <<>>)
  THEN [queue |-> open_queue, ms |-> acc]
  ELSE LET open_exec == Head(open_queue)
           matched_qty == Min(open_exec.remaining, remaining_qty)
       IN IF matched_qty <= 0 THEN [queue |-> open_queue, ms |-> acc]
          ELSE LET left == open_exec.remaining - matched_qty
                   q1 == IF left = 0 THEN Tail(open_queue)
                         ELSE <<[id |-> open_exec.id, remaining |-> left]>>
                                \o Tail(open_queue)
               IN CloseAgainstQueue(q1, c, remaining_qty - matched_qty,
                     Append(acc, ExecutionMatch(open_exec.id, c, matched_qty, now)), now)

\* the walk over the sorted executions; the queue restarts with each group
RECURSIVE RebuildWalk(_, _, _, _, _, _)
RebuildWalk(order, ex, key, open_queue, acc, now) ==
  IF order = <<>> THEN acc
  ELSE LET e == Head(order)
           k == <<ex[e].ticker, ex[e].direction>>
           queue == IF k = key THEN open_queue ELSE <<>>
       IN IF ex[e].side = "OPEN"
          THEN RebuildWalk(Tail(order), ex, k,
                 Append(queue, [id |-> e, remaining |-> ex[e].quantity]), acc, now)
          ELSE LET r == CloseAgainstQueue(queue, e, ex[e].quantity, acc, now)
               IN RebuildWalk(Tail(order), ex, k, r.queue, r.ms, now)

rebuild_execution_matches(ex, now) ==
  RebuildWalk(RebuildOrder(ex, DOMAIN ex), ex, <<>>, <<>>, <<>>, now)

\* ------------------------------------------- execution_matcher_dry_run.py
\* the local ExecutionMatch class: no row of any table
DryRunMatch(open_id, close_id, quantity) ==
  [open_id |-> open_id, close_id |-> close_id, quantity |-> quantity]

\* the while loop of one CLOSE e against the open_queue
RECURSIVE DryRunClose(_, _, _, _, _)
DryRunClose(ex, open_queue, e, remaining_qty, all_matches) ==
  IF ~(remaining_qty > 0 /\ open_queue # <<>>)
  THEN [queue |-> open_queue, all_matches |-> all_matches]
  ELSE LET open_exec == Head(open_queue)
           matched_qty == Min(open_exec.remaining, remaining_qty)
       IN IF matched_qty <= 0
          THEN [queue |-> open_queue, all_matches |-> all_matches]
          ELSE LET reduced == [open_exec EXCEPT !.remaining = @ - matched_qty]
                   q1 == IF reduced.remaining = 0 THEN Tail(open_queue)
                         ELSE <<reduced>> \o Tail(open_queue)
               IN DryRunClose(ex, q1, e, remaining_qty - matched_qty,
                    Append(all_matches, DryRunMatch(open_exec.id, e, matched_qty)))

\* the executions of one (ticker, direction) group, in loaded order
DryRunGroup(ex, loaded, k) ==
  SelectSeq(loaded, LAMBDA e : <<ex[e].ticker, ex[e].direction>> = k)

\* for e in group, from position i on
RECURSIVE DryRunGroupWalk(_, _, _, _, _)
DryRunGroupWalk(ex, group, i, open_queue, all_matches) ==
  IF i > Len(group) THEN all_matches
  ELSE LET e == group[i]
       IN IF ex[e].side = "OPEN"
          THEN DryRunGroupWalk(ex, group, i + 1,
                 Append(open_queue, [id |-> e, remaining |-> ex[e].quantity,
                                     timestamp |-> ex[e].timestamp]),
                 all_matches)
          ELSE IF ex[e].side = "CLOSE"
          THEN LET r == DryRunClose(ex, open_queue, e, ex[e].quantity, all_matches)
               IN DryRunGroupWalk(ex, group, i + 1, r.queue, r.all_matches)
          ELSE DryRunGroupWalk(ex, group, i + 1, open_queue, all_matches)

\* the keys of groups, in the order the dict received them
RECURSIVE DryRunKeys(_, _, _)
DryRunKeys(ex, loaded, i) ==
  IF i = 0 THEN <<>>
  ELSE LET before == DryRunKeys(ex, loaded, i - 1)
           k == <<ex[loaded[i]].ticker, ex[loaded[i]].direction>>
       IN IF k \in Range(before) THEN before ELSE Append(before, k)

\* for (ticker, direction), group in groups.items(), from key j on
RECURSIVE DryRunGroups(_, _, _, _, _)
DryRunGroups(ex, loaded, keys, j, all_matches) ==
  IF j > Len(keys) THEN all_matches
  ELSE DryRunGroups(ex, loaded, keys, j + 1,
         DryRunGroupWalk(ex, DryRunGroup(ex, loaded, keys[j]), 1, <<>>, all_matches))

\* a dry run that loads the executions in id order
run_dry_run_matcher_ByIdOnly(ex) ==
  LET loaded == [i \in DOMAIN ex |-> i]
  IN DryRunGroups(ex, loaded, DryRunKeys(ex, loaded, Len(loaded)), 1, <<>>)

run_dry_run_matcher(ex) ==
  LET loaded == RebuildOrder(ex, DOMAIN ex)
  IN DryRunGroups(ex, loaded, DryRunKeys(ex, loaded, Len(loaded)), 1, <<>>)

\* ------------------------------------------ trade_lifecycle_materializer.py
TradeLifecycleEvent(t, type, at) ==
  [trade_id |-> t, event_type |-> type, created_at |-> at]

\* WHERE open_execution_id = trade.id
TradeMatches(ms, t) == {i \in DOMAIN ms : ms[i].open_execution_id = t}

\* ORDER BY created_at: every order of the rows I that is ascending in
\* created_at; rows with equal created_at come in an order SQL leaves open.
RECURSIVE OrderByCreatedAt(_, _)
OrderByCreatedAt(ms, I) ==
  IF I = {} THEN {<<>>}
  ELSE UNION {{<<ms[i]>> \o s : s \in OrderByCreatedAt(ms, I \ {i})} :
                i \in {j \in I : \A k \in I : ms[j].created_at <= ms[k].created_at}}

\* partial_close on every match that lowers the quantity
EmitsPartialClose_EveryFall(before, remaining) == before > remaining

EmitsPartialClose(before, remaining) == before > remaining /\ remaining > 0

\* closed on every match that finds the trade at zero
EmitsClosed_Unguarded(before, remaining, ever_closed) == remaining = 0

EmitsClosed(before, remaining, ever_closed) ==
  before > 0 /\ remaining = 0 /\ ~ever_closed

\* the loop over one trade's matches: the rows it appends and the end_date
\* it sets (0: not set)
RECURSIVE MatchWalk(_, _, _, _, _, _)
MatchWalk(ms, t, remaining0, ever_closed, rows, end_date) ==
  IF ms = <<>> THEN [rows |-> rows, end_date |-> end_date]
  ELSE LET m == Head(ms)
           qty == m.matched_quantity
       IN IF qty <= 0
          THEN MatchWalk(Tail(ms), t, remaining0, ever_closed, rows, end_date)
          ELSE LET before == remaining0
                   remaining == IF before - qty < 0 THEN 0 ELSE before - qty
                   r1 == IF EmitsPartialClose(before, remaining)
                         THEN Append(rows, TradeLifecycleEvent(t, "partial_close", m.created_at))
                         ELSE rows
                   closes == EmitsClosed(before, remaining, ever_closed)
                   r2 == IF closes
                         THEN Append(r1, TradeLifecycleEvent(t, "closed", m.created_at))
                         ELSE r1
               IN MatchWalk(Tail(ms), t, remaining, ever_closed \/ closes, r2,
                            IF closes /\ end_date = NoDate THEN m.created_at ELSE end_date)

\* one iteration of `for trade in trades`, the trade's matches given in order
TradeRows(trade, t, ms) ==
  LET opened == <<TradeLifecycleEvent(t, "opened", trade.created_at)>>
  IN IF ms = <<>>
     THEN IF trade.exit_price # NoPrice
          THEN [rows |-> Append(opened, TradeLifecycleEvent(t, "closed", trade.created_at)),
                end_date |-> IF trade.end_date = NoDate THEN trade.created_at
                             ELSE trade.end_date]
          ELSE [rows |-> opened, end_date |-> trade.end_date]
     ELSE MatchWalk(ms, t, trade.original_quantity, FALSE, opened, trade.end_date)

\* the orders in which the per-trade queries can return the matches
MatchOrders(tr, ms) ==
  {f \in [DOMAIN tr -> UNION {OrderByCreatedAt(ms, TradeMatches(ms, t)) : t \in DOMAIN tr}] :
     \A t \in DOMAIN tr : f[t] \in OrderByCreatedAt(ms, TradeMatches(ms, t))}

RECURSIVE Concat(_, _)
Concat(f, n) == IF n = 0 THEN <<>> ELSE Concat(f, n - 1) \o f[n]

\* the result for the match orders `ord`: the event rows and the trades
rebuild_trade_lifecycle_events(tr, ord) ==
  LET res == [t \in DOMAIN tr |-> TradeRows(tr[t], t, ord[t])]
  IN [events |-> Concat([t \in DOMAIN tr |-> res[t].rows], Len(tr)),
      trades |-> [t \in DOMAIN tr |-> [tr[t] EXCEPT !.end_date = res[t].end_date]]]

\* ------------------------------------------ scripts/rebuild_trade_lifecycle.py
ScriptEmitsPartialClose(before, open_qty) == before > 0 /\ open_qty > 0

ScriptEmitsClosed(before, open_qty, ever_closed) ==
  before > 0 /\ open_qty = 0 /\ ~ever_closed

ScriptFallbackCloses(trade, ever_closed) == trade.exit_price # NoPrice /\ ~ever_closed

RECURSIVE ScriptWalk(_, _, _, _, _, _)
ScriptWalk(ms, ex, t, open_qty0, ever_closed, rows) ==
  IF ms = <<>> THEN [rows |-> rows, ever_closed |-> ever_closed]
  ELSE LET m == Head(ms)
           qty == m.matched_quantity
       IN IF m.close_execution_id \notin DOMAIN ex \/ qty <= 0
          THEN ScriptWalk(Tail(ms), ex, t, open_qty0, ever_closed, rows)
          ELSE LET before == open_qty0
                   open_qty == IF before - qty < 0 THEN 0 ELSE before - qty
                   ts == ex[m.close_execution_id].timestamp
                   r1 == IF ScriptEmitsPartialClose(before, open_qty)
                         THEN Append(rows, TradeLifecycleEvent(t, "partial_close", ts))
                         ELSE rows
                   closes == ScriptEmitsClosed(before, open_qty, ever_closed)
                   r2 == IF closes
                         THEN Append(r1, TradeLifecycleEvent(t, "closed", ts))
                         ELSE r1
               IN ScriptWalk(Tail(ms), ex, t, open_qty, ever_closed \/ closes, r2)

ScriptTradeRows(trade, ex, t, ms) ==
  LET opened_at == IF t \in DOMAIN ex THEN ex[t].timestamp ELSE trade.created_at
      w == ScriptWalk(ms, ex, t, trade.original_quantity, FALSE,
                      <<TradeLifecycleEvent(t, "opened", opened_at)>>)
  IN IF ScriptFallbackCloses(trade, w.ever_closed)
     THEN Append(w.rows, TradeLifecycleEvent(t, "closed", trade.created_at))
     ELSE w.rows

rebuild_trade_lifecycle(tr, ex, ord) ==
  Concat([t \in DOMAIN tr |-> ScriptTradeRows(tr[t], ex, t, ord[t])], Len(tr))

\* ------------------------------------------------------ trade_close.py
\* a Trade row that is not closed
Trade(direction, entry_price, original_quantity, exit_price, fee, now) ==
  [direction |-> direction, entry_price |-> entry_price,
   original_quantity |-> original_quantity, exit_price |-> exit_price,
   fee |-> fee, realized_pnl |-> NoPnl, realized_pnl_pct |-> NoPnl,
   end_date |-> NoDate, created_at |-> now]

\* pnl / notional, kept as the fraction <<pnl, notional>>
PnlPct(pnl, notional) == IF notional # 0 THEN <<pnl, notional>> ELSE <<0, 1>>

\* close_trade without its first test
close_trade_Unguarded(trade, exit_price, closed_at, fee, now) ==
  LET qty == trade.original_quantity
      entry == trade.entry_price
      pnl == (IF trade.direction = "long" THEN (exit_price - entry) * qty
              ELSE (entry - exit_price) * qty)
             - (IF fee # NoFee THEN fee ELSE IF trade.fee = NoFee THEN 0 ELSE trade.fee)
  IN [err |-> FALSE,
      trade |-> [trade EXCEPT !.exit_price = exit_price,
                              !.end_date = IF closed_at = NoDate THEN now ELSE closed_at,
                              !.realized_pnl = <<pnl>>,
                              !.realized_pnl_pct = PnlPct(pnl, entry * qty)]]

\* err: the call raised; trade: the row as the call leaves it
close_trade(trade, exit_price, closed_at, fee, now) ==
  IF trade.end_date # NoDate THEN [err |-> TRUE, trade |-> trade]
  ELSE LET at == IF closed_at = NoDate THEN now ELSE closed_at
           qty == trade.original_quantity
           entry == trade.entry_price
           exit_ == exit_price
       IN IF trade.direction \notin {"long", "short"}
          THEN [err |-> TRUE, trade |-> trade]
          ELSE LET gross == IF trade.direction = "long" THEN (exit_ - entry) * qty
                            ELSE (entry - exit_) * qty
                   fee_to_use == IF fee # NoFee THEN fee
                                 ELSE IF trade.fee = NoFee THEN 0 ELSE trade.fee
                   pnl == gross - fee_to_use
                   notional == entry * qty
               IN [err |-> FALSE,
                   trade |-> [trade EXCEPT !.exit_price = exit_,
                                           !.end_date = at,
                                           !.realized_pnl = <<pnl>>,
                                           !.realized_pnl_pct = PnlPct(pnl, notional)]]

\* ------------------------------------------------------ position_builder.py
\* Decimal values that come out of a division are kept as fractions <<n, d>>
\* with d > 0
Frac(n) == <<n, 1>>
FracAdd(a, b) == <<a[1] * b[2] + b[1] * a[2], a[2] * b[2]>>
FracEq(a, b) == a[1] * b[2] = b[1] * a[2]
FracLess(a, b) == a[1] * b[2] < b[1] * a[2]

\* a row handed to build_position_snapshot: an open (or DCA add) or a close
PositionRow(direction, is_open, quantity, entry_price, exit_price, entry_date) ==
  [direction |-> direction, is_open |-> is_open, quantity |-> quantity,
   entry_price |-> entry_price, exit_price |-> exit_price,
   entry_date |-> entry_date, end_date |-> IF is_open THEN NoDate ELSE entry_date]

\* sorted(trades, key=lambda t: t.entry_date): stable
SortedByEntryDate(ts) ==
  LET Pos(i) == 1 + Cardinality({j \in DOMAIN ts :
                     \/ ts[j].entry_date < ts[i].entry_date
                     \/ ts[j].entry_date = ts[i].entry_date /\ j < i})
  IN [k \in DOMAIN ts |-> ts[CHOOSE i \in DOMAIN ts : Pos(i) = k]]

\* pnl = close_qty * (exit_price - avg_entry)
PnlOfClose(close_qty, exit_price, avg_entry) ==
  <<close_qty * (exit_price * avg_entry[2] - avg_entry[1]), avg_entry[2]>>

\* a close taken whole, whatever is still open
CloseQty_Unclamped(qty, remaining_before) == qty

\* close_qty = min(qty, remaining_before)
CloseQty(qty, remaining_before) == Min(qty, remaining_before)

\* the accumulators before the loop
PositionStart ==
  [opened_qty |-> 0, closed_qty |-> 0, cost_basis |-> 0, realized_pnl |-> Frac(0),
   closed_at |-> NoDate, raised |-> FALSE]

\* one pass of the loop over the sorted rows; Decimal(str(None)) raises
PositionStep(acc, t) ==
  IF acc.raised THEN acc
  ELSE IF t.is_open
  THEN [acc EXCEPT !.opened_qty = @ + t.quantity,
                   !.cost_basis = @ + t.quantity * t.entry_price]
  ELSE LET remaining_before == acc.opened_qty - acc.closed_qty
           close_qty == CloseQty(t.quantity, remaining_before)
           avg_entry == IF acc.opened_qty > 0 THEN <<acc.cost_basis, acc.opened_qty>>
                        ELSE Frac(0)
       IN IF close_qty <= 0 THEN acc
          ELSE IF t.exit_price = NoPrice THEN [acc EXCEPT !.raised = TRUE]
          ELSE [acc EXCEPT
                  !.realized_pnl = FracAdd(@, PnlOfClose(close_qty, t.exit_price,
                                                          avg_entry)),
                  !.closed_qty = @ + close_qty,
                  !.closed_at = IF acc.closed_qty + close_qty = acc.opened_qty
                                THEN t.end_date ELSE @]

RECURSIVE PositionLoop(_, _)
PositionLoop(ts, n) ==
  IF n = 0 THEN PositionStart
  ELSE PositionStep(PositionLoop(ts, n - 1), ts[n])

\* the snapshot for a call that raises
NoSnapshot == [raised |-> TRUE]

build_position_snapshot(trades_in, current_price) ==
  LET ts == SortedByEntryDate(trades_in)
  IN IF ts = <<>> THEN NoSnapshot
     ELSE LET side == ts[1].direction
              acc == PositionLoop(ts, Len(ts))
              remaining_qty == acc.opened_qty - acc.closed_qty
              avg_entry_price == IF acc.opened_qty > 0
                                 THEN <<<<acc.cost_basis, acc.opened_qty>>>> ELSE NoPnl
          IN IF acc.raised THEN NoSnapshot
             ELSE [raised |-> FALSE, side |-> side,
                   opened_qty |-> acc.opened_qty, closed_qty |-> acc.closed_qty,
                   remaining_qty |-> remaining_qty,
                   avg_entry_price |-> avg_entry_price,
                   realized_pnl |-> acc.realized_pnl,
                   unrealized_pnl |->
                     IF current_price # NoPrice /\ remaining_qty > 0
                        /\ avg_entry_price # NoPnl
                     THEN <<<<remaining_qty * (current_price * acc.opened_qty
                                               - acc.cost_basis), acc.opened_qty>>>>
                     ELSE NoPnl,
                   closed_at |-> acc.closed_at]

\* ------------------------------------------------------------------ actions
NoPayload == [side |-> "none"]

\* a session with no transaction
NoTx ==
  [pc |-> "idle", kind |-> "none", payload |-> NoPayload, c |-> 0, now |-> 0,
   remaining |-> 0, close_rem |-> 0, rem |-> <<>>, ms |-> <<>>, plan |-> <<>>,
   locks |-> {}, deleted |-> 0, regen |-> <<>>]

NoOp ==
  [op |-> "none", id |-> 0, dup |-> FALSE, stale |-> FALSE, n |-> 0, chain |-> 0,
   err |-> FALSE]

Init ==
  /\ executions = <<>>
  /\ matches = <<>>
  /\ trades = <<>>
  /\ events = <<>>
  /\ clock = 0
  /\ last = NoOp
  /\ tx = [p \in Procs |-> NoTx]

\* how far a run of rebuild_execution_matches, rebuild_trade_lifecycle_events,
\* rebuild_execution_matches, rebuild_trade_lifecycle_events has come (0..4)
Chain(op) ==
  IF op = "rebuild_matches" THEN (IF last.chain = 2 THEN 3 ELSE 1)
  ELSE IF op = "rebuild_lifecycle" /\ last.chain \in {1, 3} THEN last.chain + 1
  ELSE 0

\* history of the last completed call: its name, the execution it took or
\* returned, whether it found a duplicate, whether the CLOSE's stored
\* remaining_qty was stale, how often it ran in a row (up to 2), and the
\* run of full rebuilds it ends
Done(op, id, dup, stale) ==
  [op |-> op, id |-> id, dup |-> dup, stale |-> stale,
   n |-> IF last.op = op /\ last.id = id THEN Min(last.n + 1, 2) ELSE 1,
   chain |-> Chain(op), err |-> FALSE]

\* the same for a call that raised
Raised(op, id) == [Done(op, id, FALSE, FALSE) EXCEPT !.err = TRUE]

Tick(ms) == IF ms # matches THEN clock + 1 ELSE clock

\* ------------------------------------------------------------ transactions
\* Sessions run in READ COMMITTED transactions: a statement reads the
\* committed tables overlaid with what its own transaction wrote; flush sends
\* the writes to the database without committing them; an UPDATE or a
\* SELECT ... FOR UPDATE locks its rows until the transaction ends.

\* the remaining_qty values `rem` written by a transaction, laid over ex
Overlay(ex, rem) ==
  [e \in DOMAIN ex |->
     IF e \in DOMAIN rem THEN [ex[e] EXCEPT !.remaining_qty = rem[e]] ELSE ex[e]]

LockedByOthers(p) == UNION {tx[q].locks : q \in Procs \ {p}}

\* what session p reads: for insert_execution_and_match its own new row is
\* the last one
View(p) ==
  LET t == tx[p]
      own == Overlay(executions, t.rem)
  IN IF t.kind = "sync"
     THEN Append(own, [NewExecution(t.payload) EXCEPT !.remaining_qty = t.close_rem])
     ELSE [own EXCEPT ![t.c].remaining_qty = t.close_rem]

CloseId(p) == IF tx[p].kind = "sync" THEN Len(executions) + 1 ELSE tx[p].c

\* the rows a transaction has written, as they are once committed
Written(ex, ms, t) ==
  LET own == Overlay(ex, t.rem)
      c == IF t.kind = "sync" THEN Len(ex) + 1 ELSE t.c
  IN [ex |-> IF t.kind = "sync"
             THEN Append(own, [NewExecution(t.payload) EXCEPT !.remaining_qty = t.close_rem])
             ELSE [own EXCEPT ![c].remaining_qty = t.close_rem],
      ms |-> ms \o [i \in DOMAIN t.ms |->
                      ExecutionMatch(t.ms[i].open, c, t.ms[i].qty, t.now)]]

\* a flush that publishes what the session has written so far
Flush_Commits(ex, ms, t) == Written(ex, ms, t)

\* db.flush() / session.flush(): nothing becomes visible to the committed
\* tables
Flush(ex, ms, t) == [ex |-> ex, ms |-> ms]

\* db.commit()
Commit(ex, ms, t) == Written(ex, ms, t)

Inserting == Cardinality({q \in Procs : tx[q].kind = "sync" /\ tx[q].pc \notin {"done", "aborted"}})

Startable(p) == tx[p].pc \in {"idle", "done", "aborted"} /\ clock < MaxClock

\* insert_execution_and_match up to the first loop test: the idempotency
\* checks, the INSERT of the row and its flush
SyncBegin(p, payload) ==
  /\ Startable(p)
  /\ IF ExistingExecution(executions, payload) # 0
     THEN /\ tx' = [tx EXCEPT ![p] = [NoTx EXCEPT !.pc = "done"]]
          /\ UNCHANGED <<executions, matches, clock>>
     ELSE /\ Len(executions) + Inserting < MaxExecs
          /\ LET t == [NoTx EXCEPT !.kind = "sync", !.payload = payload, !.now = clock,
                                   !.remaining = payload.quantity,
                                   !.close_rem = payload.quantity,
                                   !.pc = IF payload.side = "CLOSE" THEN "matching"
                                          ELSE "commit"]
                 f == Flush(executions, matches, t)
             IN /\ tx' = [tx EXCEPT ![p] = t]
                /\ executions' = f.ex
                /\ matches' = f.ms
          /\ clock' = clock + 1
  /\ UNCHANGED <<trades, events, last>>

\* ix_executions_source_rowhash_unique, the unique partial index: the rows of
\* ex that hold the key of payload p
IndexConflicts(ex, p) ==
  {e \in DOMAIN ex : /\ p.source_rowhash # NoHash
                      /\ ex[e].source = p.source
                      /\ ex[e].source_filename = p.source_filename
                      /\ ex[e].source_rowhash = p.source_rowhash}

\* the other sessions whose uncommitted INSERT holds the key of p's payload
IndexWaitsFor(p) ==
  {q \in Procs \ {p} :
     /\ tx[q].kind = "sync" /\ tx[q].pc \in {"matching", "commit"}
     /\ IndexConflicts(<<NewExecution(tx[q].payload)>>, tx[p].payload) # {}}

\* insert_execution_and_match up to the INSERT: the idempotency checks, each
\* a SELECT of its own over the committed rows
IngestCheck(p, payload) ==
  /\ Startable(p)
  /\ IF ExistingExecution(executions, payload) # 0
     THEN /\ tx' = [tx EXCEPT ![p] = [NoTx EXCEPT !.pc = "done"]]
          /\ last' = Done("insert", ExistingExecution(executions, payload), TRUE, FALSE)
     ELSE /\ Len(executions) + Inserting < MaxExecs
          /\ tx' = [tx EXCEPT ![p] = [NoTx EXCEPT !.kind = "sync", !.payload = payload,
                                                !.now = clock,
                                                !.remaining = payload.quantity,
                                                !.close_rem = payload.quantity,
                                                !.pc = "insert"]]
          /\ UNCHANGED last
  /\ clock' = clock + 1
  /\ UNCHANGED <<executions, matches, trades, events>>

\* db.add and db.flush of insert_execution_and_match under the unique index:
\* the INSERT waits for a session that holds the same key uncommitted, and
\* fails with IntegrityError, which nothing catches, when a committed row
\* holds it
IngestInsert(p) ==
  /\ tx[p].pc = "insert"
  /\ IndexWaitsFor(p) = {}
  /\ IF IndexConflicts(executions, tx[p].payload) # {}
     THEN /\ tx' = [tx EXCEPT ![p].pc = "aborted"]
          /\ last' = Raised("insert", 0)
     ELSE /\ tx' = [tx EXCEPT ![p].pc = IF tx[p].payload.side = "CLOSE"
                                        THEN "matching" ELSE "commit"]
          /\ UNCHANGED last
  /\ UNCHANGED <<executions, matches, trades, events, clock>>

\* a SELECT ... FOR UPDATE without SKIP LOCKED waits while another session
\* holds one of its rows
MustWait_ForUpdate(p, rows) == rows \cap LockedByOthers(p) # {}

\* the SELECT of the loop has to wait for a row lock: never, with
\* skip_locked=True
MustWait(p, rows) == FALSE

\* one iteration of the while loop of _match_close_execution: the SELECT FOR
\* UPDATE SKIP LOCKED, the Match, the two UPDATEs and the flush
SyncMatchStep(p) ==
  /\ tx[p].pc = "matching"
  /\ ~MustWait(p, MatcherCandidates(View(p), CloseId(p)))
  /\ LET t == tx[p]
         view == View(p)
         c == CloseId(p)
         rows == MatcherCandidates(view, c) \ LockedByOthers(p)
         cands == FifoOrder(view, rows)
     IN IF cands = <<>>
        THEN /\ tx' = [tx EXCEPT ![p].pc = "commit"]
             /\ UNCHANGED <<executions, matches>>
        ELSE LET candidate == Head(cands)
                 match_qty == Min(view[candidate].remaining_qty, t.remaining)
                 new_candidate_rem == view[candidate].remaining_qty - match_qty
                 new_close_rem == t.remaining - match_qty
                 t1 == [t EXCEPT !.locks = @ \cup rows,
                                 !.ms = Append(@, [open |-> candidate, qty |-> match_qty]),
                                 !.rem = [o \in DOMAIN @ \cup {candidate} |->
                                            IF o = candidate THEN new_candidate_rem ELSE @[o]],
                                 !.close_rem = new_close_rem,
                                 !.remaining = new_close_rem,
                                 !.pc = IF new_close_rem > 0 THEN "matching" ELSE "commit"]
                 f == Flush(executions, matches, t1)
             IN /\ tx' = [tx EXCEPT ![p] = t1]
                /\ executions' = f.ex
                /\ matches' = f.ms
  /\ UNCHANGED <<trades, events, clock, last>>

\* a caller's session takes a stored CLOSE and calls match_close_execution
AsyncBegin(p, c) ==
  /\ Startable(p)
  /\ executions[c].side = "CLOSE"
  /\ tx' = [tx EXCEPT ![p] = [NoTx EXCEPT !.kind = "async", !.c = c, !.now = clock,
                                        !.close_rem = executions[c].remaining_qty,
                                        !.pc = "reconcile"]]
  /\ clock' = clock + 1
  /\ UNCHANGED <<executions, matches, trades, events, last>>

\* match_close_execution, the reconciliation of the CLOSE with its Matches
AsyncReconcile(p) ==
  /\ tx[p].pc = "reconcile"
  /\ LET t == tx[p]
         expected_remaining == executions[t.c].quantity - AlreadyMatched(matches, t.c)
         writes == t.close_rem # expected_remaining
         t1 == [t EXCEPT !.close_rem = expected_remaining,
                         !.locks = IF writes THEN @ \cup {t.c} ELSE @,
                         !.pc = IF expected_remaining <= 0 THEN "commit" ELSE "load"]
         f == Flush(executions, matches, t1)
     IN /\ writes => t.c \notin LockedByOthers(p)
        /\ tx' = [tx EXCEPT ![p] = t1]
        /\ executions' = f.ex
        /\ matches' = f.ms
  /\ UNCHANGED <<trades, events, clock, last>>

\* match_close_execution, the SELECT of the OPENs and the FIFO loop over them
AsyncLoad(p) ==
  /\ tx[p].pc = "load"
  /\ LET t == tx[p]
         view == View(p)
         opens == FifoOrder(view, OpenCandidates(view, t.c))
         plan == FifoPlan(opens, view, t.close_rem)
     IN tx' = [tx EXCEPT ![p].plan = [i \in DOMAIN plan |->
                                        [open |-> plan[i].open, qty |-> plan[i].qty,
                                         loaded |-> view[plan[i].open].remaining_qty]],
                         ![p].remaining = t.close_rem - PlanTotal(plan),
                         ![p].pc = IF plan = <<>> THEN "finish" ELSE "apply"]
  /\ UNCHANGED <<executions, matches, trades, events, clock, last>>

\* match_close_execution, one iteration of the mutation loop: the Match, the
\* new remaining_qty of the OPEN as the session loaded it, and the flush,
\* whose UPDATE waits for a lock another transaction holds on the row
AsyncApply(p) ==
  /\ tx[p].pc = "apply"
  /\ LET t == tx[p]
         item == Head(t.plan)
         t1 == [t EXCEPT !.ms = Append(@, [open |-> item.open, qty |-> item.qty]),
                         !.rem = [o \in DOMAIN @ \cup {item.open} |->
                                    IF o = item.open THEN item.loaded - item.qty ELSE @[o]],
                         !.locks = @ \cup {item.open},
                         !.plan = Tail(@),
                         !.pc = IF Tail(t.plan) = <<>> THEN "finish" ELSE "apply"]
         f == Flush(executions, matches, t1)
     IN /\ item.open \notin LockedByOthers(p)
        /\ tx' = [tx EXCEPT ![p] = t1]
        /\ executions' = f.ex
        /\ matches' = f.ms
  /\ UNCHANGED <<trades, events, clock, last>>

\* match_close_execution, the last assignment to the CLOSE and its flush
AsyncFinish(p) ==
  /\ tx[p].pc = "finish"
  /\ LET t == tx[p]
         writes == t.close_rem # t.remaining
         t1 == [t EXCEPT !.close_rem = t.remaining,
                         !.locks = IF writes THEN @ \cup {t.c} ELSE @,
                         !.pc = "commit"]
         f == Flush(executions, matches, t1)
     IN /\ writes => t.c \notin LockedByOthers(p)
        /\ tx' = [tx EXCEPT ![p] = t1]
        /\ executions' = f.ex
        /\ matches' = f.ms
  /\ UNCHANGED <<trades, events, clock, last>>

\* db.commit() of insert_execution_and_match, session.commit() of the caller
\* of match_close_execution
CommitTx(p) ==
  /\ tx[p].pc = "commit"
  /\ LET r == Commit(executions, matches, tx[p])
     IN /\ executions' = r.ex
        /\ matches' = r.ms
  /\ tx' = [tx EXCEPT ![p] = [NoTx EXCEPT !.pc = "done", !.kind = tx[p].kind,
                                        !.payload = tx[p].payload,
                                        !.c = CloseId(p), !.now = tx[p].now]]
  /\ UNCHANGED <<trades, events, clock, last>>

\* the process dies or the transaction is rolled back before its commit
Crash(p) ==
  /\ tx[p].pc \notin {"idle", "done", "aborted"}
  /\ tx' = [tx EXCEPT ![p].pc = "aborted", ![p].locks = {}]
  /\ UNCHANGED <<executions, matches, trades, events, clock, last>>

\* rebuild_execution_matches, the DELETE of the rows it sees and the flush
RebuildDelete(p) ==
  /\ Startable(p)
  /\ tx' = [tx EXCEPT ![p] = [NoTx EXCEPT !.kind = "rebuild", !.now = clock,
                                        !.deleted = Len(matches), !.pc = "rebuild_load"]]
  /\ clock' = clock + 1
  /\ UNCHANGED <<executions, matches, trades, events, last>>

\* rebuild_execution_matches, the SELECT of the executions and the matching
RebuildLoad(p) ==
  /\ tx[p].pc = "rebuild_load"
  /\ tx' = [tx EXCEPT ![p].regen = rebuild_execution_matches(executions, tx[p].now),
                      ![p].pc = "rebuild_commit"]
  /\ UNCHANGED <<executions, matches, trades, events, clock, last>>

\* rebuild_execution_matches, the commit: the rows deleted go, the new rows
\* come, the rows other transactions committed since the DELETE stay
RebuildCommit(p) ==
  /\ tx[p].pc = "rebuild_commit"
  /\ matches' = SubSeq(matches, tx[p].deleted + 1, Len(matches)) \o tx[p].regen
  /\ tx' = [tx EXCEPT ![p] = [NoTx EXCEPT !.pc = "done", !.kind = "rebuild",
                                        !.now = tx[p].now]]
  /\ last' = Done("rebuild_matches", 0, FALSE, FALSE)
  /\ UNCHANGED <<executions, trades, events, clock>>

\* ----------------------------------------------------------- whole calls
\* a row stored without matching (session.add_all + commit)
AddExecution(p) ==
  /\ Len(executions) < MaxExecs
  /\ executions' = Append(executions, NewExecution(p))
  /\ last' = Done("add", Len(executions) + 1, FALSE, FALSE)
  /\ UNCHANGED <<matches, trades, events, clock, tx>>

InsertExecutionAndMatch(p) ==
  /\ clock < MaxClock
  /\ ExistingExecution(executions, p) # 0 \/ Len(executions) < MaxExecs
  /\ LET r == insert_execution_and_match(executions, matches, p, clock)
     IN /\ executions' = r.ex
        /\ matches' = r.ms
        /\ clock' = Tick(r.ms)
        /\ last' = Done("insert", r.id, r.dup, FALSE)
  /\ UNCHANGED <<trades, events, tx>>

MatchCloseExecution(c) ==
  /\ clock < MaxClock
  /\ executions[c].side = "CLOSE"
  /\ LET r == match_close_execution(executions, matches, c, clock)
     IN /\ executions' = r.ex
        /\ matches' = r.ms
        /\ clock' = Tick(r.ms)
        /\ last' = Done("match_close", c, FALSE,
                        ReconcileClose(executions, matches, c) # executions)
  /\ UNCHANGED <<trades, events, tx>>

\* a rebuild that brings every remaining_qty in line with the new Matches
ExecutionsAfterRebuild_Synced(ex, ms) ==
  [e \in DOMAIN ex |->
     [ex[e] EXCEPT !.remaining_qty =
        ex[e].quantity - SumQty(ms, {i \in DOMAIN ms :
                                       \/ ms[i].open_execution_id = e
                                       \/ ms[i].close_execution_id = e})]]

\* the Execution rows as rebuild_execution_matches commits them: it adds
\* ExecutionMatch rows to the session and nothing else
ExecutionsAfterRebuild(ex, ms) == ex

RebuildExecutionMatches ==
  /\ clock < MaxClock
  /\ matches' = rebuild_execution_matches(executions, clock)
  /\ executions' = ExecutionsAfterRebuild(executions, matches')
  /\ clock' = clock + 1
  /\ last' = Done("rebuild_matches", 0, FALSE, FALSE)
  /\ UNCHANGED <<trades, events, tx>>

\* an execution no earlier than the stored ones is added and committed, and,
\* when it is a CLOSE, given to match_close_execution at once
IngestAndMatchClose(p) ==
  /\ clock < MaxClock
  /\ Len(executions) < MaxExecs
  /\ \A e \in DOMAIN executions : executions[e].timestamp <= p.timestamp
  /\ LET ex1 == Append(executions, NewExecution(p))
         c == Len(ex1)
         r == IF p.side = "CLOSE" THEN match_close_execution(ex1, matches, c, clock)
              ELSE [ex |-> ex1, ms |-> matches]
     IN /\ executions' = r.ex
        /\ matches' = r.ms
        /\ clock' = Tick(r.ms)
        /\ last' = Done("ingest_match", c, FALSE, FALSE)
  /\ UNCHANGED <<trades, events, tx>>

\* run_dry_run_matcher on the stored executions: it returns its list and
\* writes nothing
RunDryRunMatcher ==
  /\ last' = Done("dry_run", 0, FALSE, FALSE)
              @@ [result |-> run_dry_run_matcher(executions)]
  /\ UNCHANGED <<executions, matches, trades, events, clock, tx>>

\* insert_execution_and_match called with the strings of an import row; a
\* call that raises leaves its session without a commit
InsertRaw(raw) ==
  /\ clock < MaxClock
  /\ Len(executions) < MaxExecs
  /\ LET r == insert_execution_and_match_raw(executions, matches, raw, clock)
     IN /\ executions' = r.ex
        /\ matches' = r.ms
        /\ clock' = Tick(r.ms)
        /\ last' = IF r.err THEN Raised("insert", 0)
                   ELSE Done("insert", r.id, r.dup, FALSE)
  /\ UNCHANGED <<trades, events, tx>>

\* build_position_snapshot called on the list of rows a caller holds; it
\* reads no table and writes none
BuildPositionSnapshot(current_price) ==
  /\ "input" \in DOMAIN last
  /\ last' = [Done("snapshot", 0, FALSE, FALSE) EXCEPT
                !.err = build_position_snapshot(last.input, current_price).raised]
              @@ [input |-> last.input,
                  snap |-> build_position_snapshot(last.input, current_price)]
  /\ UNCHANGED <<executions, matches, trades, events, clock, tx>>

\* a Trade row stored by the trade importer or the trades API
CreateTrade(original_quantity, has_exit_price) ==
  /\ Len(trades) < MaxTrades
  /\ clock < MaxClock
  /\ trades' = Append(trades, Trade("long", 1, original_quantity,
                                     IF has_exit_price THEN 1 ELSE NoPrice,
                                     NoFee, clock))
  /\ clock' = clock + 1
  /\ last' = Done("create_trade", Len(trades) + 1, FALSE, FALSE)
  /\ UNCHANGED <<executions, matches, events, tx>>

\* a Trade row of any direction, entry price and fee
CreateTradeWith(direction, entry_price, original_quantity, exit_price, fee) ==
  /\ Len(trades) < MaxClosable
  /\ clock < MaxClock
  /\ trades' = Append(trades, Trade(direction, entry_price, original_quantity,
                                     exit_price, fee, clock))
  /\ clock' = clock + 1
  /\ last' = Done("create_trade", Len(trades) + 1, FALSE, FALSE)
  /\ UNCHANGED <<executions, matches, events, tx>>

\* close_trade on trade t and the commit of what it left
CloseTrade(t, exit_price, closed_at, fee) ==
  /\ clock < MaxClock
  /\ LET r == close_trade(trades[t], exit_price, closed_at, fee, clock)
     IN /\ trades' = [trades EXCEPT ![t] = r.trade]
        /\ last' = IF r.err THEN Raised("close_trade", t)
                   ELSE Done("close_trade", t, FALSE, FALSE)
  /\ clock' = clock + 1
  /\ UNCHANGED <<executions, matches, events, tx>>

RebuildTradeLifecycleEvents ==
  /\ \E ord \in MatchOrders(trades, matches) :
       LET r == rebuild_trade_lifecycle_events(trades, ord)
       IN events' = r.events /\ trades' = r.trades
  /\ last' = Done("rebuild_lifecycle", 0, FALSE, FALSE)
  /\ UNCHANGED <<executions, matches, clock, tx>>

RebuildTradeLifecycle ==
  /\ \E ord \in MatchOrders(trades, matches) :
       events' = rebuild_trade_lifecycle(trades, executions, ord)
  /\ last' = Done("rebuild_lifecycle_script", 0, FALSE, FALSE)
  /\ UNCHANGED <<executions, matches, trades, clock, tx>>

EnginePayloads ==
  PayloadsOver({"a.csv"}, {NoHash}, {NoExecId}, Range(Directions), 1..MaxQty, 1..MaxTime)

Next ==
  \/ \E p \in EnginePayloads : AddExecution(p)
  \/ \E p \in EnginePayloads : InsertExecutionAndMatch(p)
  \/ \E c \in DOMAIN executions : MatchCloseExecution(c)
  \/ RebuildExecutionMatches

Spec == Init /\ [][Next]_vars

\* the ledger with Trades and the lifecycle rebuilds
LifecyclePayloads ==
  PayloadsOver({"a.csv"}, {NoHash}, {NoExecId}, {"LONG"}, 1..(MaxQty + 1), {1})

NextLifecycle ==
  \/ \E q \in 1..MaxQty, x \in BOOLEAN : CreateTrade(q, x)
  \/ \E p \in LifecyclePayloads : AddExecution(p)
  \/ \E c \in DOMAIN executions : MatchCloseExecution(c)
  \/ RebuildExecutionMatches
  \/ RebuildTradeLifecycleEvents
  \/ RebuildTradeLifecycle

SpecLifecycle == Init /\ [][NextLifecycle]_vars

TradeClosePayloads ==
  PayloadsOver({"a.csv"}, {NoHash}, {NoExecId}, {"LONG"}, {1}, {1})

\* trades closed by close_trade and by the lifecycle rebuilds
NextTradeClose ==
  \/ \E d \in TradeDirections, e \in 0..1, q \in 1..MaxQty,
        x \in {NoPrice, 1}, f \in {NoFee, 1} : CreateTradeWith(d, e, q, x, f)
  \/ \E t \in DOMAIN trades, x \in 1..MaxPrice, at \in {NoDate, MaxTime},
        f \in {NoFee, 0} : CloseTrade(t, x, at, f)
  \/ \E p \in TradeClosePayloads : AddExecution(p)
  \/ \E c \in DOMAIN executions : MatchCloseExecution(c)
  \/ RebuildTradeLifecycleEvents
  \/ RebuildTradeLifecycle

SpecTradeClose == Init /\ [][NextTradeClose]_vars

\* ingestion alone, over records that differ in their dedupe keys
DedupPayloads ==
  PayloadsOver({"a.csv", "b.csv"}, {NoHash, "h1", "h2"}, {NoExecId, "x1"}, {"LONG"},
               {1}, {1})

NextDedup == \E p \in DedupPayloads : InsertExecutionAndMatch(p)

SpecDedup == Init /\ [][NextDedup]_vars

\* two sessions matching at the same time
ConcPayloads == PayloadsOver({"a.csv"}, {NoHash}, {NoExecId}, {"LONG"}, 1..MaxQty, {1})

Idle == \A p \in Procs : tx[p].pc \in {"idle", "done", "aborted"}

NextConc ==
  \/ \E p \in ConcPayloads : AddExecution(p)
  \/ \E p \in Procs, payload \in ConcPayloads : SyncBegin(p, payload)
  \/ \E p \in Procs : SyncMatchStep(p)
  \/ \E p \in Procs, c \in DOMAIN executions : AsyncBegin(p, c)
  \/ \E p \in Procs : AsyncReconcile(p)
  \/ \E p \in Procs : AsyncLoad(p)
  \/ \E p \in Procs : AsyncApply(p)
  \/ \E p \in Procs : AsyncFinish(p)
  \/ \E p \in Procs : CommitTx(p)

SpecConc == Init /\ [][NextConc]_vars

\* one session at a time, which may die before it commits
NextCrash ==
  \/ Idle /\ \E p \in ConcPayloads : AddExecution(p)
  \/ \E payload \in ConcPayloads : SyncBegin(1, payload)
  \/ SyncMatchStep(1)
  \/ \E c \in DOMAIN executions : AsyncBegin(1, c)
  \/ AsyncReconcile(1)
  \/ AsyncLoad(1)
  \/ AsyncApply(1)
  \/ AsyncFinish(1)
  \/ CommitTx(1)
  \/ Crash(1)

SpecCrash == Init /\ [][NextCrash]_vars

\* two importers ingesting rows that carry a source_rowhash
ImportPayloads == PayloadsOver({"a.csv"}, {"h1", "h2"}, {NoExecId}, {"LONG"}, {1}, {1})

NextImportRace ==
  \/ \E p \in Procs, payload \in ImportPayloads : IngestCheck(p, payload)
  \/ \E p \in Procs : IngestInsert(p)
  \/ \E p \in Procs : SyncMatchStep(p)
  \/ \E p \in Procs : CommitTx(p)

SpecImportRace == Init /\ [][NextImportRace]_vars

\* two sessions of insert_execution_and_match at the same time
NextMatchRace ==
  \/ \E p \in Procs, payload \in ConcPayloads : SyncBegin(p, payload)
  \/ \E p \in Procs : SyncMatchStep(p)
  \/ \E p \in Procs : CommitTx(p)

SpecMatchRace == Init /\ [][NextMatchRace]_vars

\* a session that can take a step of its call takes it: the importer runs a
\* call, once begun, to its return
SpecMatchRaceFair ==
  /\ SpecMatchRace
  /\ \A p \in Procs : WF_vars(SyncMatchStep(p)) /\ WF_vars(CommitTx(p))

\* ingestion alone, of records that differ in their timestamps
ArrivalPayloads ==
  PayloadsOver({"a.csv"}, {NoHash}, {NoExecId}, {"LONG"}, 1..MaxQty, 1..MaxTime)

NextArrival == \E p \in ArrivalPayloads : InsertExecutionAndMatch(p)

SpecArrival == Init /\ [][NextArrival]_vars

\* the rows of one (account, symbol, side), up to MaxPositionRows of them
\* the function checks no quantity: negative ones reach it as well
PositionQtys == {0 - 1} \cup 1..MaxQty

PositionRows(direction) ==
  {PositionRow(direction, TRUE, q, e, NoPrice, d) :
     q \in PositionQtys, e \in 1..MaxPrice, d \in 1..MaxTime}
  \cup {PositionRow(direction, FALSE, q, 1, x, d) :
          q \in PositionQtys, x \in {NoPrice} \cup 1..MaxPrice, d \in 1..MaxTime}

PositionInputs ==
  UNION {[1..n -> PositionRows(direction)] :
           n \in 0..MaxPositionRows, direction \in Range(Directions)}

\* empty tables and a caller that holds a list of rows
InitPosition ==
  /\ executions = <<>>
  /\ matches = <<>>
  /\ trades = <<>>
  /\ events = <<>>
  /\ clock = 0
  /\ last \in {NoOp @@ [input |-> trades_in] : trades_in \in PositionInputs}
  /\ tx = [p \in Procs |-> NoTx]

NextPosition == \E current_price \in {NoPrice, MaxPrice} : BuildPositionSnapshot(current_price)

SpecPosition == InitPosition /\ [][NextPosition]_vars

\* the ledger with the dry run beside the persisting rebuild
NextDryRun ==
  \/ \E p \in EnginePayloads : AddExecution(p)
  \/ \E c \in DOMAIN executions : MatchCloseExecution(c)
  \/ RebuildExecutionMatches
  \/ RunDryRunMatcher

SpecDryRun == Init /\ [][NextDryRun]_vars

\* executions arriving in timestamp order, each CLOSE matched on arrival
NextIncremental == \E p \in EnginePayloads : IngestAndMatchClose(p)

SpecIncremental == Init /\ [][NextIncremental]_vars

\* two sessions of insert_execution_and_match for CLOSEs, the OPENs being
\* stored while neither runs
NextCloseRace ==
  \/ Idle /\ \E p \in {q \in ConcPayloads : q.side = "OPEN"} : AddExecution(p)
  \/ \E p \in Procs, payload \in {q \in ConcPayloads : q.side = "CLOSE"} :
       SyncBegin(p, payload)
  \/ \E p \in Procs : SyncMatchStep(p)
  \/ \E p \in Procs : CommitTx(p)

SpecCloseRace == Init /\ [][NextCloseRace]_vars

\* payloads as they arrive, quantity and price unparsed
RawPayloads ==
  [source : {"blofin"}, source_filename : {"a.csv"}, source_rowhash : {NoHash},
   source_execution_id : {NoExecId}, ticker : Range(Tickers), direction : {"LONG"},
   side : Sides, quantity : RawNumbers, price : RawNumbers, timestamp : {1}]

NextValidate == \E raw \in RawPayloads : InsertRaw(raw)

SpecValidate == Init /\ [][NextValidate]_vars

\* a match rebuild in steps, while other sessions ingest and match
NextRebuildRace ==
  \/ \E p \in ConcPayloads : AddExecution(p)
  \/ \E p \in ConcPayloads : InsertExecutionAndMatch(p)
  \/ \E c \in DOMAIN executions : MatchCloseExecution(c)
  \/ RebuildDelete(1)
  \/ RebuildLoad(1)
  \/ RebuildCommit(1)

SpecRebuildRace == Init /\ [][NextRebuildRace]_vars

\* ------------------------------------------------------------------ claims
\* matched quantity over the Matches that reference e, as open or as close
Touching(ms, e) ==
  SumQty(ms, {i \in DOMAIN ms : ms[i].open_execution_id = e
                                  \/ ms[i].close_execution_id = e})

\* C1 Conservation: every Execution's remaining_qty equals its quantity minus
\* the matched_quantity of all Matches that reference it, in every state
\* reachable by ingest-and-match calls and match rebuilds.
C1_Conservation ==
  \A e \in DOMAIN executions :
    executions[e].remaining_qty = executions[e].quantity - Touching(matches, e)

\* C2 No over-matching: for every Execution the matched_quantity of the
\* Matches referencing it never exceeds its quantity.
C2_NoOverMatching ==
  \A e \in DOMAIN executions : Touching(matches, e) <= executions[e].quantity

\* The reference FIFO result for a CLOSE with attributes cl and `unconsumed`
\* quantity left, over the table ex: each candidate in (timestamp, id) order
\* gets min(its remaining_qty, what the earlier candidates left of the CLOSE).
RefCandidates(ex, cl) ==
  FifoOrder(ex, {o \in DOMAIN ex : /\ ex[o].side = "OPEN"
                                   /\ ex[o].ticker = cl.ticker
                                   /\ ex[o].direction = cl.direction
                                   /\ ex[o].remaining_qty > 0})

RECURSIVE RemainingBefore(_, _, _)
RemainingBefore(ex, cands, i) ==
  IF i = 1 THEN 0
  ELSE ex[cands[i - 1]].remaining_qty + RemainingBefore(ex, cands, i - 1)

RefShare(ex, cands, i, unconsumed) ==
  LET left == unconsumed - RemainingBefore(ex, cands, i)
  IN IF left <= 0 THEN 0 ELSE Min(ex[cands[i]].remaining_qty, left)

RefMatches(ex, cl, c, unconsumed) ==
  LET cands == RefCandidates(ex, cl)
      used == {i \in DOMAIN cands : RefShare(ex, cands, i, unconsumed) > 0}
  IN [i \in 1..Cardinality(used) |->
        <<cands[i], c, RefShare(ex, cands, i, unconsumed)>>]

NewMatchKeys ==
  [i \in 1..(Len(matches') - Len(matches)) |->
     LET m == matches'[Len(matches) + i]
     IN <<m.open_execution_id, m.close_execution_id, m.matched_quantity>>]

IsFifoStep(c) ==
  /\ SubSeq(matches', 1, Len(matches)) = matches
  /\ NewMatchKeys = RefMatches(executions, executions'[c], c,
                       executions'[c].quantity - AlreadyMatched(matches, c))

\* C3 FIFO allocation: a match_close on a CLOSE c (by match_close_execution,
\* or by _match_close_execution on ingestion) appends exactly the reference
\* FIFO Matches: the OPENs of c's ticker and direction with remaining_qty > 0
\* in ascending (timestamp, id) order, each for min(its remaining_qty, what
\* is left of c), until c is consumed or the candidates run out.
C3_FifoAllocation ==
  [][/\ \A c \in DOMAIN executions : MatchCloseExecution(c) => IsFifoStep(c)
     /\ \A p \in EnginePayloads :
          (InsertExecutionAndMatch(p) /\ p.side = "CLOSE") => IsFifoStep(Len(executions'))
    ]_vars

\* The same for match_close_execution alone.
C3_FifoAllocationAsync ==
  [][\A c \in DOMAIN executions : MatchCloseExecution(c) => IsFifoStep(c)]_vars

SameKey(ex, e, p) ==
  /\ ex[e].source = p.source
  /\ ex[e].source_filename = p.source_filename
  /\ ex[e].source_rowhash = p.source_rowhash

\* what a repeated ingest of p has to be: the id of the existing row returned,
\* one row with p's key, no new Match and no remaining_qty changed
IsDuplicateNoOp(p) ==
  /\ last'.id \in DOMAIN executions
  /\ SameKey(executions, last'.id, p)
  /\ Cardinality({e \in DOMAIN executions' : SameKey(executions', e, p)}) = 1
  /\ matches' = matches
  /\ executions' = executions

EventTypes(evs, t) ==
  LET OfTrade(e) == e.trade_id = t
      own == SelectSeq(evs, OfTrade)
  IN [i \in DOMAIN own |-> own[i].event_type]

\* opened (partial_close)* closed?
IsLifecycle(s) ==
  /\ Len(s) >= 1
  /\ s[1] = "opened"
  /\ \A i \in 2..Len(s) : s[i] = "partial_close" \/ (s[i] = "closed" /\ i = Len(s))

\* C6 Lifecycle monotonicity: after a lifecycle rebuild (either variant) the
\* events of every Trade, in emission order, are one opened, then any number
\* of partial_close, then at most one closed, and nothing after closed.
C6_LifecycleMonotone ==
  last.op \in {"rebuild_lifecycle", "rebuild_lifecycle_script"}
    => \A t \in DOMAIN trades : IsLifecycle(EventTypes(events, t))

\* a Trade went opened, partial_close, closed, and another Trade was closed by
\* the first of two Matches, the second one finding nothing left to close
C6_Witness ==
  /\ last.op \in {"rebuild_lifecycle", "rebuild_lifecycle_script"}
  /\ \E t \in DOMAIN trades :
       \/ EventTypes(events, t) = <<"opened", "partial_close", "closed">>
       \/ /\ EventTypes(events, t) = <<"opened", "closed">>
          /\ Cardinality(TradeMatches(matches, t)) = 2

MatchKeys(ms) ==
  [i \in DOMAIN ms |->
     <<ms[i].open_execution_id, ms[i].close_execution_id, ms[i].matched_quantity>>]

\* C7 Rebuild determinism and idempotence: a second full rebuild
\* (rebuild_execution_matches, then rebuild_trade_lifecycle_events) right
\* after a first one leaves the same Match rows and, for every Trade, the
\* same event types in the same order.
C7_RebuildIdempotent ==
  [][/\ (RebuildExecutionMatches /\ last.chain = 2)
          => MatchKeys(matches') = MatchKeys(matches)
     /\ (RebuildTradeLifecycleEvents /\ last.chain = 3)
          => \A t \in DOMAIN trades : EventTypes(events', t) = EventTypes(events, t)
    ]_vars

\* C8 Replay of match_close is idempotent: match_close_execution on a CLOSE
\* whose Matches already sum to its quantity creates no Match and changes no
\* OPEN's remaining_qty, whatever the CLOSE's stored remaining_qty; and a
\* second match_close_execution on the same CLOSE right after a first one
\* changes neither the Matches nor any remaining_qty.
C8_ReplayIdempotent ==
  [][\A c \in DOMAIN executions :
       MatchCloseExecution(c) =>
         /\ AlreadyMatched(matches, c) = executions[c].quantity
              => /\ matches' = matches
                 /\ \A o \in DOMAIN executions :
                      executions[o].side = "OPEN"
                        => executions'[o].remaining_qty = executions[o].remaining_qty
         /\ (last.op = "match_close" /\ last.id = c)
              => matches' = matches /\ executions' = executions
    ]_vars

\* match_close_execution ran on a fully matched CLOSE whose stored
\* remaining_qty was stale, while an OPEN of its group showed remaining_qty > 0
C8_Witness ==
  /\ last.op = "match_close" /\ last.stale
  /\ AlreadyMatched(matches, last.id) = executions[last.id].quantity
  /\ OpenCandidates(executions, last.id) # {}

OpenMatched(ms, o) == SumQty(ms, {i \in DOMAIN ms : ms[i].open_execution_id = o})

\* both sessions have committed a match_close, of two CLOSEs of one group
BothCommitted ==
  /\ \A p \in Procs : tx[p].pc = "done" /\ tx[p].kind \in {"sync", "async"} /\ tx[p].c # 0
  /\ tx[1].c # tx[2].c
  /\ executions[tx[1].c].ticker = executions[tx[2].c].ticker
  /\ executions[tx[1].c].direction = executions[tx[2].c].direction

\* C4 No double consumption under concurrency: once two matchers of two
\* CLOSEs of the same (ticker, direction) have both committed, each OPEN's
\* remaining_qty is its quantity minus the quantity matched against it, and
\* that quantity does not exceed the OPEN's quantity.
C4_NoDoubleConsumption ==
  BothCommitted =>
    \A o \in DOMAIN executions :
      executions[o].side = "OPEN" =>
        /\ executions[o].remaining_qty = executions[o].quantity - OpenMatched(matches, o)
        /\ OpenMatched(matches, o) <= executions[o].quantity

Conserved(ex, ms) ==
  \A e \in DOMAIN ex : ex[e].remaining_qty = ex[e].quantity - Touching(ms, e)

\* C9 Atomic match commit: whenever a step of a matcher's transaction changes
\* the committed tables, they become what the whole call makes of them (all
\* its decrements and all its Matches), and every committed remaining_qty is
\* backed by its Matches; a transaction that dies changes nothing.
C9_AtomicCommit ==
  [][\A p \in Procs :
       (tx'[p] # tx[p] /\ (executions' # executions \/ matches' # matches)) =>
         LET t == tx'[p]
             r == IF t.kind = "sync"
                  THEN insert_execution_and_match(executions, matches, t.payload, t.now)
                  ELSE match_close_execution(executions, matches, t.c, t.now)
         IN /\ executions' = r.ex
            /\ matches' = r.ms
            /\ Conserved(executions', matches')
    ]_vars

\* a matcher died after its first decrement and Match, and the committed
\* tables show neither
C9_Witness ==
  /\ tx[1].pc = "aborted"
  /\ Len(tx[1].ms) >= 1
  /\ matches = <<>>
  /\ \A e \in DOMAIN executions : executions[e].remaining_qty = executions[e].quantity

RebuildRunning(p) ==
  tx[p].kind = "rebuild" /\ tx[p].pc \in {"rebuild_load", "rebuild_commit"}

\* C10 Rebuilds run exclusively: between a rebuild's DELETE and its commit
\* no other transaction changes the committed Executions or Matches, and
\* the Matches the rebuild leaves are those it regenerated from its snapshot.
C10_RebuildExclusive ==
  [][\A p \in Procs :
       /\ (RebuildRunning(p) /\ ~RebuildCommit(p))
            => executions' = executions /\ matches' = matches
       /\ RebuildCommit(p) => matches' = tx[p].regen
    ]_vars

\* The second half alone: what a rebuild leaves is what it regenerated.
C10_RebuildSnapshot ==
  [][\A p \in Procs : RebuildCommit(p) => matches' = tx[p].regen]_vars

\* C11 Match well-formedness: every Match has as open_execution_id an
\* Execution with side OPEN and as close_execution_id an Execution with side
\* CLOSE, and the two have the same ticker and the same direction.
C11_MatchWellFormed ==
  \A i \in DOMAIN matches :
    LET o == matches[i].open_execution_id
        c == matches[i].close_execution_id
    IN /\ o \in DOMAIN executions /\ c \in DOMAIN executions
       /\ executions[o].side = "OPEN"
       /\ executions[c].side = "CLOSE"
       /\ executions[o].ticker = executions[c].ticker
       /\ executions[o].direction = executions[c].direction

\* the OPENs a CLOSE of (ticker, direction) could be matched with
OpenInventory(ex, ticker, direction) ==
  {o \in DOMAIN ex : /\ ex[o].side = "OPEN"
                     /\ ex[o].ticker = ticker
                     /\ ex[o].direction = direction
                     /\ ex[o].remaining_qty > 0}

\* match_close_execution on an orphan CLOSE c: no Match, no OPEN changed, the
\* CLOSE left with its unmatched quantity
OrphanCloseKept(c) ==
  /\ matches' = matches
  /\ Len(executions') = Len(executions)
  /\ \A e \in DOMAIN executions : e # c => executions'[e] = executions[e]
  /\ executions'[c].remaining_qty = executions[c].quantity - AlreadyMatched(matches, c)

\* insert_execution_and_match of an orphan CLOSE p: the row is inserted with
\* remaining_qty = quantity, no Match, no other row changed
OrphanCloseIngested(p) ==
  /\ matches' = matches
  /\ executions' = Append(executions, NewExecution(p))
  /\ last'.id = Len(executions) + 1 /\ ~last'.dup

\* C12 Orphan close is not an error: matching a CLOSE when no OPEN of its
\* (ticker, direction) has remaining_qty > 0 creates no Match, changes no
\* OPEN and leaves the CLOSE with remaining_qty equal to its unmatched
\* quantity; the ingestion of such a CLOSE inserts it.
C12_OrphanClose ==
  [][/\ \A c \in DOMAIN executions :
          (/\ MatchCloseExecution(c)
           /\ OpenInventory(executions, executions[c].ticker, executions[c].direction) = {})
            => OrphanCloseKept(c)
     /\ \A p \in EnginePayloads :
          (/\ InsertExecutionAndMatch(p)
           /\ p.side = "CLOSE"
           /\ ExistingExecution(executions, p) = 0
           /\ OpenInventory(executions, p.ticker, p.direction) = {})
            => OrphanCloseIngested(p)
    ]_vars

\* The same for match_close_execution alone.
C12_OrphanCloseAsync ==
  [][\A c \in DOMAIN executions :
       (/\ MatchCloseExecution(c)
        /\ OpenInventory(executions, executions[c].ticker, executions[c].direction) = {})
         => OrphanCloseKept(c)]_vars

\* the Matches of trade t sum to more than the trade's original quantity
Overclosed(tr, ms, t) == SumQty(ms, TradeMatches(ms, t)) > tr[t].original_quantity

\* C13 Replay inconsistency is fatal: a lifecycle rebuild that meets a trade
\* whose Matches sum to more than its original quantity aborts and commits
\* nothing: lifecycle events and trade rows stay as they were.
C13_ReplayInconsistencyFatal ==
  [][((RebuildTradeLifecycleEvents \/ RebuildTradeLifecycle)
        /\ \E t \in DOMAIN trades : Overclosed(trades, matches, t))
       => (events' = events /\ trades' = trades)]_vars

ClosedCount(evs, t) ==
  Cardinality({i \in DOMAIN evs : evs[i].trade_id = t /\ evs[i].event_type = "closed"})

\* trade t has Matches and is closed only if they reach its original
\* quantity; no trade is closed twice
MatchPathWins(t) ==
  /\ (TradeMatches(matches, t) # {} /\ ClosedCount(events, t) > 0)
       => SumQty(matches, TradeMatches(matches, t)) >= trades[t].original_quantity
  /\ ClosedCount(events, t) <= 1

\* C14 Fallback isolation: after a lifecycle rebuild (either variant), a
\* Trade that has at least one Match has a closed event only if its Matches'
\* cumulative quantity reaches original_quantity, whether or not exit_price
\* is set, and no trade has more than one closed event.
C14_FallbackIsolation ==
  last.op \in {"rebuild_lifecycle", "rebuild_lifecycle_script"}
    => \A t \in DOMAIN trades : MatchPathWins(t)

\* The same for rebuild_trade_lifecycle_events alone.
C14_FallbackIsolationMaterializer ==
  last.op = "rebuild_lifecycle" => \A t \in DOMAIN trades : MatchPathWins(t)

\* the fields a close sets
CloseFields(trade) ==
  <<trade.exit_price, trade.end_date, trade.realized_pnl, trade.realized_pnl_pct>>

\* C15 Closed is terminal: once a Trade's end_date is set no step changes
\* its exit_price, end_date, realized_pnl or realized_pnl_pct, neither a
\* close_trade nor a lifecycle rebuild; close_trade on it raises; and a
\* close_trade that raises changes none of the four fields.
C15_ClosedTerminal ==
  [][\A t \in DOMAIN trades :
       /\ trades[t].end_date # NoDate => CloseFields(trades'[t]) = CloseFields(trades[t])
       /\ \A x \in 1..MaxPrice, at \in {NoDate, MaxTime}, f \in {NoFee, 0} :
            CloseTrade(t, x, at, f) =>
              /\ trades[t].end_date # NoDate => last'.err
              /\ last'.err => CloseFields(trades'[t]) = CloseFields(trades[t])
    ]_vars

\* close_trade has just raised on a trade it closed before
C15_Witness ==
  /\ last.op = "close_trade" /\ last.err
  /\ trades[last.id].end_date # NoDate
  /\ trades[last.id].realized_pnl # NoPnl

\* C16 remaining_qty is monotone and bounded: no step increases an
\* Execution's remaining_qty, and every remaining_qty stays within
\* 0 .. quantity.
C16_RemainingMonotone ==
  [][/\ \A e \in DOMAIN executions :
          executions'[e].remaining_qty <= executions[e].remaining_qty
     /\ \A e \in DOMAIN executions' :
          /\ 0 <= executions'[e].remaining_qty
          /\ executions'[e].remaining_qty <= executions'[e].quantity
    ]_vars

\* The bound alone.
C16_RemainingBounded ==
  \A e \in DOMAIN executions :
    0 <= executions[e].remaining_qty /\ executions[e].remaining_qty <= executions[e].quantity

Malformed(raw) == ~IsDecimal(raw.quantity) \/ ~IsDecimal(raw.price)

NonPositive(raw) ==
  \/ IsDecimal(raw.quantity) /\ Decimal(raw.quantity) <= 0
  \/ IsDecimal(raw.price) /\ Decimal(raw.price) <= 0

Rejected ==
  last'.err /\ executions' = executions /\ matches' = matches

\* C17 Validation at ingestion: ingesting a record whose quantity or price
\* is malformed or non-positive reports an error, inserts no Execution row
\* and creates no Match.
C17_ValidationAtIngestion ==
  [][\A raw \in RawPayloads :
       (InsertRaw(raw) /\ (Malformed(raw) \/ NonPositive(raw))) => Rejected]_vars

\* The same for malformed values alone.
C17_MalformedRejected ==
  [][\A raw \in RawPayloads : (InsertRaw(raw) /\ Malformed(raw)) => Rejected]_vars

\* the INSERT of session p meets a row with its key that another session
\* committed after p's idempotency check
LostInsertRace(p) ==
  tx[p].pc = "insert" /\ IndexConflicts(executions, tx[p].payload) # {}

\* at most one row for each (source, source_filename, source_rowhash)
C18_OneRowPerKey ==
  \A e \in DOMAIN executions :
    Cardinality(IndexConflicts(executions, executions[e])) <= 1

\* C18 Concurrent duplicate ingestion: when two importers concurrently ingest
\* the same (source, source_filename, source_rowhash), exactly one row exists
\* afterwards and neither call fails: the loser is treated as a duplicate and
\* returns the id of the existing row.
C18_ConcurrentDuplicate ==
  /\ []C18_OneRowPerKey
  /\ [][\A p \in Procs :
          (LostInsertRace(p) /\ IngestInsert(p)) =>
            /\ ~last'.err
            /\ last'.dup
            /\ last'.id \in IndexConflicts(executions, tx[p].payload)
            /\ executions' = executions]_vars

\* a session inside the loop of _match_close_execution can take its next
\* iteration whatever the other sessions hold
C19_NeverWaits ==
  \A p \in Procs : tx[p].pc = "matching" => ENABLED SyncMatchStep(p)

\* no OPEN row is locked by two sessions
C19_LocksDisjoint ==
  \A p \in Procs : tx[p].locks \cap LockedByOthers(p) = {}

\* an iteration matches against no OPEN that another session has locked
C19_SkipsLocked ==
  [][\A p \in Procs :
       (SyncMatchStep(p) /\ Len(tx'[p].ms) > Len(tx[p].ms)) =>
         tx'[p].ms[Len(tx'[p].ms)].open \notin LockedByOthers(p)]_vars

\* every call that has begun returns
C19_Terminates ==
  \A p \in Procs : (tx[p].pc \in {"matching", "commit"}) ~> (tx[p].pc = "done")

PayloadOf(row) == [f \in DOMAIN row \ {"remaining_qty"} |-> row[f]]

\* the tables after the first n payloads of ps went through
\* insert_execution_and_match, one after the other
RECURSIVE IngestAll(_, _)
IngestAll(ps, n) ==
  IF n = 0 THEN [ex |-> <<>>, ms |-> <<>>]
  ELSE LET r == IngestAll(ps, n - 1)
           s == insert_execution_and_match(r.ex, r.ms, ps[n], 0)
       IN [ex |-> s.ex, ms |-> s.ms]

\* pairings and remaining quantities, each tuple named by its timestamp
Outcome(ex, ms) ==
  [pairs |-> {<<ex[ms[i].open_execution_id].timestamp,
                ex[ms[i].close_execution_id].timestamp,
                ms[i].matched_quantity>> : i \in DOMAIN ms},
   rem |-> {<<ex[e].timestamp, ex[e].remaining_qty>> : e \in DOMAIN ex}]

DistinctTimestamps(ex) ==
  \A a \in DOMAIN ex, b \in DOMAIN ex : a # b => ex[a].timestamp # ex[b].timestamp

\* C20 Arrival-order independence: for a set of execution tuples with
\* distinct timestamps, ingesting them through insert_execution_and_match in
\* any other arrival order yields the same pairings (which OPEN with which
\* CLOSE, for what quantity) and the same remaining quantities.
C20_ArrivalOrderIndependence ==
  DistinctTimestamps(executions) =>
    \A order \in Permutations(DOMAIN executions) :
      LET r == IngestAll([i \in DOMAIN executions |-> PayloadOf(executions[order[i]])],
                         Len(executions))
      IN Outcome(r.ex, r.ms) = Outcome(executions, matches)

\* no stored row carries the dedupe key of payload p: neither its
\* (source, source_filename, source_rowhash) nor its (source, source_execution_id)
NewDedupeKey(ex, p) ==
  /\ p.source_rowhash # NoHash \/ p.source_execution_id # NoExecId
  /\ \A e \in DOMAIN ex :
       /\ ~(/\ p.source_rowhash # NoHash
            /\ ex[e].source = p.source
            /\ ex[e].source_filename = p.source_filename
            /\ ex[e].source_rowhash = p.source_rowhash)
       /\ ~(/\ p.source_execution_id # NoExecId
            /\ ex[e].source = p.source
            /\ ex[e].source_execution_id = p.source_execution_id)

\* C21 Ingestion postcondition: a successful ingest of a record with a new
\* dedupe key adds exactly one Execution row, created with remaining_qty =
\* quantity (less only what the ingest itself matched to it); ingesting an
\* OPEN creates no Match and changes no other Execution.
C21_IngestionPostcondition ==
  [][\A p \in DedupPayloads :
       (InsertExecutionAndMatch(p) /\ NewDedupeKey(executions, p)) =>
         LET id == Len(executions) + 1
         IN /\ Len(executions') = id
            /\ ~last'.dup /\ last'.id = id
            /\ PayloadOf(executions'[id]) = p
            /\ executions'[id].remaining_qty
                 = p.quantity - AlreadyMatched(matches', id)
            /\ p.side = "OPEN" =>
                 /\ matches' = matches
                 /\ executions' = Append(executions, NewExecution(p))]_vars

\* an OPEN with a new row hash was ingested while an unmatched CLOSE of its
\* ticker was stored, and stayed whole
C21_Witness ==
  /\ last.op = "insert" /\ ~last.dup /\ last.id = Len(executions)
  /\ last.id > 1
  /\ executions[last.id].side = "OPEN"
  /\ executions[last.id].source_rowhash # NoHash
  /\ executions[last.id].remaining_qty = executions[last.id].quantity
  /\ \E c \in DOMAIN executions :
       executions[c].side = "CLOSE" /\ executions[c].remaining_qty > 0

\* the snapshot of the call that has just returned
Snapshot == last.snap

SnapshotTaken == last.op = "snapshot"

\* the rows of the input in time order, and sums over the first n of them
Ordered == SortedByEntryDate(last.input)

RECURSIVE OpenedUpTo(_, _)
OpenedUpTo(ts, n) ==
  IF n = 0 THEN 0
  ELSE OpenedUpTo(ts, n - 1) + (IF ts[n].is_open THEN ts[n].quantity ELSE 0)

RECURSIVE CostUpTo(_, _)
CostUpTo(ts, n) ==
  IF n = 0 THEN 0
  ELSE CostUpTo(ts, n - 1)
         + (IF ts[n].is_open THEN ts[n].quantity * ts[n].entry_price ELSE 0)

\* the quantity that row n closes, a close being cut to what is still open
RECURSIVE ClosedUpTo(_, _)
ClosedBy(ts, n) ==
  IF ts[n].is_open THEN 0
  ELSE LET still == OpenedUpTo(ts, n - 1) - ClosedUpTo(ts, n - 1)
           cut == IF ts[n].quantity <= still THEN ts[n].quantity ELSE still
       IN IF cut > 0 THEN cut ELSE 0

ClosedUpTo(ts, n) == IF n = 0 THEN 0 ELSE ClosedUpTo(ts, n - 1) + ClosedBy(ts, n)

\* sum over the closes among the first n rows of closed quantity times
\* (close price - average entry price of the opens before it), as a fraction,
\* turned round for a SHORT
RECURSIVE RealizedUpTo(_, _, _)
RealizedUpTo(direction, ts, n) ==
  IF n = 0 THEN Frac(0)
  ELSE IF ClosedBy(ts, n) = 0 THEN RealizedUpTo(direction, ts, n - 1)
  ELSE LET opened == OpenedUpTo(ts, n)
           gain == ClosedBy(ts, n) * (ts[n].exit_price * opened - CostUpTo(ts, n))
       IN FracAdd(RealizedUpTo(direction, ts, n - 1),
                  <<IF direction = "SHORT" THEN 0 - gain ELSE gain, opened>>)

\* C22 Realized P&L fold: build_position_snapshot processes opens and closes
\* in time order, and its realized P&L equals the sum, over closes, of closed
\* quantity times (close price minus the quantity-weighted average entry price
\* of the opens seen so far), with the sign reversed for SHORT positions.
C22_RealizedPnlFold ==
  (SnapshotTaken /\ ~last.err) =>
    FracEq(Snapshot.realized_pnl,
           RealizedUpTo(Snapshot.side, Ordered, Len(Ordered)))

\* The same for LONG positions alone.
C22_RealizedPnlFoldLong ==
  (SnapshotTaken /\ ~last.err /\ Snapshot.side = "LONG") =>
    FracEq(Snapshot.realized_pnl, RealizedUpTo("LONG", Ordered, Len(Ordered)))

\* a SHORT closed below its entry price has positive realized P&L
C22_ShortGain ==
  (/\ SnapshotTaken /\ ~last.err /\ Snapshot.side = "SHORT"
   /\ Len(last.input) = 2
   /\ last.input[1].is_open /\ ~last.input[2].is_open
   /\ last.input[1].entry_date < last.input[2].entry_date
   /\ last.input[2].exit_price < last.input[1].entry_price)
    => FracLess(Frac(0), Snapshot.realized_pnl)

\* the call leaves every table as it was
C23_NoWrites ==
  [][\A current_price \in {NoPrice, MaxPrice} :
       BuildPositionSnapshot(current_price) =>
         UNCHANGED <<executions, matches, trades, events>>]_vars

\* C23 The position projector never raises on insufficient data: given no
\* rows for an instrument, build_position_snapshot returns zero aggregates
\* instead of an error, and it performs no writes.
C23_NeverRaisesOnNoData ==
  [][\A current_price \in {NoPrice, MaxPrice} :
       (BuildPositionSnapshot(current_price) /\ last.input = <<>>) =>
         /\ UNCHANGED <<executions, matches, trades, events>>
         /\ ~last'.err
         /\ last'.snap.opened_qty = 0
         /\ last'.snap.closed_qty = 0
         /\ last'.snap.remaining_qty = 0
         /\ FracEq(last'.snap.realized_pnl, Frac(0))]_vars

NeverOverCloses ==
  /\ Snapshot.closed_qty <= Snapshot.opened_qty
  /\ Snapshot.remaining_qty = Snapshot.opened_qty - Snapshot.closed_qty
  /\ Snapshot.remaining_qty >= 0
  /\ Snapshot.closed_qty = ClosedUpTo(Ordered, Len(Ordered))

PositiveQuantities(ts) == \A i \in DOMAIN ts : ts[i].quantity > 0

\* C27 (as claimed) The position snapshot never over-closes: for any sequence
\* of opens and closes given to build_position_snapshot, a close larger than
\* the quantity still open is clamped to it and a close with nothing open is
\* ignored, so closed_qty <= opened_qty and remaining_qty = opened_qty -
\* closed_qty >= 0 in the result.
C27_NeverOverCloses ==
  (SnapshotTaken /\ ~last.err) => NeverOverCloses

\* C27 (amended) The same for sequences whose quantities are all positive.
C27_NeverOverClosesPositive ==
  (SnapshotTaken /\ ~last.err /\ PositiveQuantities(last.input)) => NeverOverCloses

\* a snapshot of positive rows in which one close was cut to what was still
\* open and another found nothing open
C27_Witness ==
  /\ SnapshotTaken /\ ~last.err /\ PositiveQuantities(last.input)
  /\ \E i \in DOMAIN Ordered :
       ~Ordered[i].is_open /\ ClosedBy(Ordered, i) > 0
       /\ ClosedBy(Ordered, i) < Ordered[i].quantity
  /\ \E j \in DOMAIN Ordered :
       ~Ordered[j].is_open /\ ClosedBy(Ordered, j) = 0

\* C24 rebuild_execution_matches changes only the execution_matches table:
\* every Execution row (its remaining_qty included) and every Trade row is
\* the same after the rebuild as before it.
C24_RebuildFrame ==
  [][RebuildExecutionMatches =>
       /\ executions' = executions
       /\ trades' = trades
       /\ events' = events]_vars

\* a rebuild has regenerated Matches beside a stored Trade, and left an
\* Execution with the remaining_qty it had, which the Matches do not explain
C24_Witness ==
  /\ last.op = "rebuild_matches"
  /\ trades # <<>>
  /\ matches # <<>>
  /\ ExecutionsAfterRebuild_Synced(executions, matches) # executions

\* the (open id, close id, quantity) of each row of ms, in order
Pairings(ms) ==
  [i \in DOMAIN ms |->
     DryRunMatch(ms[i].open_execution_id, ms[i].close_execution_id,
                 ms[i].matched_quantity)]

\* C25 The dry-run matcher is a read-only twin of the persisting rebuild:
\* run_dry_run_matcher leaves Executions and Matches unchanged and returns,
\* for the same Executions, the same sequence of (open id, close id, quantity)
\* pairings that rebuild_execution_matches would insert.
C25_DryRunTwin ==
  [][RunDryRunMatcher =>
       /\ executions' = executions
       /\ matches' = matches
       /\ last'.result = Pairings(rebuild_execution_matches(executions, clock))]_vars

\* a dry run returned two pairings for executions that arrived out of
\* timestamp order, while the stored Matches were different
C25_Witness ==
  /\ last.op = "dry_run"
  /\ Len(last.result) >= 2
  /\ Pairings(matches) # last.result
  /\ \E a \in DOMAIN executions, b \in DOMAIN executions :
       a < b /\ executions[b].timestamp < executions[a].timestamp

\* what is left of original_quantity after the first n Matches of ms
RECURSIVE LeftAfter(_, _, _)
LeftAfter(original_quantity, ms, n) ==
  IF n = 0 THEN original_quantity
  ELSE LET left == LeftAfter(original_quantity, ms, n - 1) - ms[n].matched_quantity
       IN IF left > 0 THEN left ELSE 0

\* the event Match n stands for: a partial_close when it lowers the quantity
\* to a value above zero, closed when it is the first to bring it to zero
EventOfMatch(original_quantity, ms, n) ==
  LET before == LeftAfter(original_quantity, ms, n - 1)
      after == LeftAfter(original_quantity, ms, n)
  IN IF after < before /\ after > 0 THEN <<"partial_close">>
     ELSE IF before > 0 /\ after = 0 THEN <<"closed">>
     ELSE <<>>

RECURSIVE EventsOfMatches(_, _, _)
EventsOfMatches(original_quantity, ms, n) ==
  IF n = 0 THEN <<"opened">>
  ELSE EventsOfMatches(original_quantity, ms, n - 1)
         \o EventOfMatch(original_quantity, ms, n)

\* C26 Lifecycle events track the Matches one for one: for a Trade with
\* Matches, walked in created_at order from original_quantity, each Match that
\* lowers the remaining quantity to a value above zero emits one
\* partial_close, the first Match that brings it to zero emits one closed,
\* later Matches emit nothing, and a Trade whose Matches sum to less than
\* original_quantity gets no closed event.
C26_EventsTrackMatches ==
  [][RebuildTradeLifecycleEvents =>
       \A t \in DOMAIN trades :
         TradeMatches(matches, t) # {} =>
           /\ \E ms \in OrderByCreatedAt(matches, TradeMatches(matches, t)) :
                EventTypes(events', t)
                  = EventsOfMatches(trades[t].original_quantity, ms, Len(ms))
           /\ SumQty(matches, TradeMatches(matches, t)) < trades[t].original_quantity
                => \A i \in DOMAIN EventTypes(events', t) :
                     EventTypes(events', t)[i] # "closed"]_vars

\* the materializer has run over one Trade whose Match left it partly open
\* and another whose Match closed it
C26_Witness ==
  /\ last.op = "rebuild_lifecycle"
  /\ \E t \in DOMAIN trades :
       /\ TradeMatches(matches, t) # {}
       /\ EventTypes(events, t) = <<"opened", "partial_close">>
  /\ \E t \in DOMAIN trades :
       /\ TradeMatches(matches, t) # {}
       /\ EventTypes(events, t) = <<"opened", "closed">>

\* the (open_execution_id, close_execution_id, matched_quantity) of the rows
MatchKeySet(ms) == {MatchKeys(ms)[i] : i \in DOMAIN ms}

\* C28 Incremental matching agrees with the rebuild: when Executions with
\* positive quantities are ingested in ascending (timestamp, id) order and
\* every CLOSE is matched on ingestion by match_close_execution, the set of
\* (open_execution_id, close_execution_id, matched_quantity) Matches equals
\* the set that rebuild_execution_matches regenerates from the Executions.
C28_IncrementalAgreesWithRebuild ==
  /\ MatchKeySet(matches) = MatchKeySet(rebuild_execution_matches(executions, clock))
  /\ Len(matches) = Len(rebuild_execution_matches(executions, clock))

\* a CLOSE was matched on arrival across two OPENs
C28_Witness ==
  /\ last.op = "ingest_match"
  /\ executions[last.id].side = "CLOSE"
  /\ Cardinality({i \in DOMAIN matches : matches[i].close_execution_id = last.id}) = 2

\* the event rows of trade t, as stored
EventsOf(evs, t) == SelectSeq(evs, LAMBDA e : e.trade_id = t)

\* opened strictly before every other event of the trade, and no
\* partial_close after closed, by created_at
CreatedAtOrdered(own) ==
  \A i \in DOMAIN own, j \in DOMAIN own :
    /\ (own[i].event_type = "opened" /\ own[j].event_type # "opened")
         => own[i].created_at < own[j].created_at
    /\ (own[i].event_type = "partial_close" /\ own[j].event_type = "closed")
         => own[i].created_at <= own[j].created_at

\* every way ORDER BY created_at can return the rows has opened first and
\* closed, when there is one, last
SortedOpenedFirstClosedLast(own) ==
  \A s \in OrderByCreatedAt(own, DOMAIN own) :
    /\ s # <<>> => s[1].event_type = "opened"
    /\ \A i \in DOMAIN s : s[i].event_type = "closed" => i = Len(s)

\* C29 The stored ordering key reproduces the emission order: for every
\* trade, the opened event's created_at is strictly earlier than that of its
\* closed event and of every partial_close, and no partial_close has a
\* created_at later than closed, so that sorting a trade's events by
\* created_at always yields opened first and closed last.
C29_CreatedAtReproducesOrder ==
  last.op \in {"rebuild_lifecycle", "rebuild_lifecycle_script"} =>
    \A t \in DOMAIN trades :
      /\ CreatedAtOrdered(EventsOf(events, t))
      /\ SortedOpenedFirstClosedLast(EventsOf(events, t))

\* CLOSE c has quantity left beside an OPEN of its ticker and direction,
\* among the rows below `bound`, that has quantity left too
StrandedClose(ex, c, bound) ==
  \E o \in DOMAIN ex :
    /\ o < bound
    /\ ex[c].side = "CLOSE" /\ ex[c].remaining_qty > 0
    /\ ex[o].side = "OPEN" /\ ex[o].remaining_qty > 0
    /\ ex[o].ticker = ex[c].ticker
    /\ ex[o].direction = ex[c].direction

\* both sessions have committed an insert_execution_and_match of a CLOSE
BothClosesCommitted ==
  \A p \in Procs :
    tx[p].pc = "done" /\ tx[p].kind = "sync" /\ tx[p].payload.side = "CLOSE"

\* C30 No stranded close under concurrency: for every interleaving of two
\* concurrent insert_execution_and_match calls for CLOSEs of the same ticker
\* and direction, once both have committed neither CLOSE is left with
\* remaining_qty > 0 while an OPEN of the same ticker and direction, stored
\* before both, still has remaining_qty > 0.
C30_NoStrandedClose ==
  BothClosesCommitted =>
    \A p \in Procs, q \in Procs :
      ~StrandedClose(executions, tx[p].c, Min(tx[p].c, tx[q].c))

\* The same for calls that run one after the other.
C30_NoStrandedCloseSequential ==
  \A c \in DOMAIN executions : ~StrandedClose(executions, c, c)

====
